---- MODULE Spec2Model ----
(***************************************************************************)
(* A state-machine model of valis/registration.py: the Valis orchestrator  *)
(* (register, rigid_register, rigid_register_partial, non_rigid_register,  *)
(* measure_error, register_micro) and the Slide displacement accessors.    *)
(*                                                                         *)
(* Geometry is modelled along one image axis: a shape is a length, a       *)
(* bounding box is <<x, w>> (0-based x), a mask or a displacement field is *)
(* a sequence indexed 1..length whose entry i+1 belongs to pixel i, and a  *)
(* rigid matrix M is [lin, t] (inverse map: source = lin * x + t) with     *)
(* lin = 1 the identity linear part and lin = -1 a reflection.             *)
(***************************************************************************)
EXTENDS Integers, Sequences, FiniteSets, TLC

(* ------------------------------ bounds -------------------------------- *)
\* largest number of slides in a set
NSlides == 3
\* largest memory estimate (GB) drawn for a higher-resolution pass
MaxEstGB == 3
\* largest integer magnification of the non-rigid frame over the rigid one
MaxScale == 2
\* largest displacement magnitude a solver call returns
MaxDisp == 1
\* number of register_micro calls made on one set
MaxMicroCalls == 2
\* largest image side (larger of width and height) and largest size budget
MaxDim == 4
\* largest recorded tile width and largest side of a warped slide, in units
\* of 8 pixels
MaxSideUnits == 5
\* number of directories a results tree can be in
NDirs == 2
\* number of distinct channel names, and largest number of channels of a slide
NChannels == 2
\* largest number of colours in a colormap
NColors == 2
\* largest number of warp-and-save and merge calls on a registered set
MaxSaveCalls == 1
\* largest pyramid level a caller asks for
MaxLevel == 3
\* number of image formats, each read by a reader class of its own
NFormats == 2

(* --------------------------- program constants ------------------------ *)
TILER_THRESH_GB == 2

CROP_OVERLAP == "overlap"
CROP_REF == "reference"
CROP_NONE == "all"

\* Valis.original_img_list: the files of the set, in the order they were found
VARIABLE original_img_list

NumImgs == Len(original_img_list)

Slides == 1..NumImgs
\* Python's None for a slide reference, an index and a shape
NoneSlide == 0
NoneIdx == -1
NoneShape == 0
NoneM == [lin |-> 0, t |-> 0]
NoneField == <<>>
NoneBBox == <<-1, -1>>
NoneRegistrar == [kind |-> "None"]
FalseRegistrar == [kind |-> "False"]
CropKeys == {CROP_REF, CROP_OVERLAP, CROP_NONE}
NoneMaskDict == [k \in CropKeys |-> [mask |-> NoneField, bbox |-> NoneBBox]]
\* a local name not yet bound to a matrix
UnboundM == [lin |-> 0, t |-> -1]
NoMicro == [status |-> "none", k |-> 0, est |-> 0, delta |-> 0, done |-> 0]
\* a path attribute that is None
NoneDir == 0
\* no call was made yet
NoneShapeCall == [fn |-> "None", level |-> 0, crop |-> "None", warned |-> FALSE,
                  raised |-> FALSE, used |-> 0, shape |-> 0]
\* no level was read yet
NonePrepLevel == [slide |-> 0, src_side |-> 0, max_img_dim |-> "None", mask |-> "None",
                  bound |-> FALSE, level |-> 0]
\* reader_cls=None; the reader classes are numbered by the format they read
NoneReader == 0

\* len(str(n)) of a natural number below 100
Digits(n) == IF n < 10 THEN 1 ELSE 2

\* the file name str.zfill(str(idx), n_digits) + "_" + prefix + name + ".png"
ThumbnailName(idx, n_digits, prefix, name) ==
    [id |-> idx, digits |-> n_digits, stem |-> <<prefix, name>>]

NoneName == [id |-> -1, digits |-> 0, stem |-> <<"", 0>>]

\* a thumbnail path: the results tree it points into and the file name
NonePath == [dir |-> NoneDir, file |-> NoneName]
IdM == [lin |-> 1, t |-> 0]

\* Slide.processed_img_shape_rc: the processed images of a set differ in size
ProcLen(s) == s + 1

(* ------------------------------ helpers ------------------------------- *)
RECURSIVE SeqMax(_)
SeqMax(q) == IF Len(q) = 0 THEN 0
             ELSE LET m == SeqMax(Tail(q)) IN IF Head(q) > m THEN Head(q) ELSE m

Perms == {p \in [1..NumImgs -> Slides] : \A a, b \in 1..NumImgs : a # b => p[a] # p[b]}

InputOrder == [i \in 1..NumImgs |-> i]

Zeros(n) == [i \in 1..n |-> 0]
Const(n, v) == [i \in 1..n |-> v]

\* position (0-based) of slide s in the list q
PosOf(q, s) == (CHOOSE i \in 1..Len(q) : q[i] = s) - 1

(* warp_tools.warp_img for a full-image mask of a slide: canonical pixel x  *)
(* is covered when its source pixel lin*x + t lies inside the image.        *)
WarpMask(len, M, out_len) ==
    [i \in 1..out_len |->
        IF M.lin * (i - 1) + M.t >= 0 /\ M.lin * (i - 1) + M.t < len THEN 1 ELSE 0]

(* warp_tools.warp_img(img, M, out_shape_rc, interp_method="nearest"):      *)
(* canonical pixel x takes the value of its source pixel, zero outside.     *)
WarpImg(img, M, out_len) ==
    [i \in 1..out_len |->
        IF M.lin * (i - 1) + M.t >= 0 /\ M.lin * (i - 1) + M.t < Len(img)
        THEN img[M.lin * (i - 1) + M.t + 1] ELSE 0]

\* the mask's value at canonical pixel i - 1, zero off the mask
MaskAt(mask, i) == IF i \in DOMAIN mask THEN mask[i] ELSE 0

\* warp_tools.xy2bbox(warp_tools.mask2xy(mask)): the mask's bounding box
MaskBBox(mask) ==
    LET on == {i \in 1..Len(mask) : mask[i] > 0} IN
    IF on = {} THEN NoneBBox
    ELSE LET lo == CHOOSE i \in on : \A j \in on : i <= j
             hi == CHOOSE i \in on : \A j \in on : i >= j
         IN <<lo - 1, hi - lo + 1>>

\* an array holding the first n values of f
RECURSIVE AsArray(_, _)
AsArray(f, n) == IF n = 0 THEN <<>> ELSE Append(AsArray(f, n - 1), f[n])

(* filters.apply_hysteresis_threshold(combo, 0.5, n - 0.5): the pixels above *)
(* the low threshold that are connected to a pixel above the high one.       *)
Hysteresis(combo, n) ==
    LET c == AsArray(combo, Len(combo))
        high == {i \in 1..Len(c) : c[i] >= n}
        Linked(i) == \E h \in high :
                        \A j \in (IF i <= h THEN i..h ELSE h..i) : c[j] >= 1
    IN AsArray([i \in 1..Len(c) |-> IF c[i] >= 1 /\ Linked(i) THEN 1 ELSE 0], Len(c))

VARIABLES
    \* constructor arguments and attributes of the Valis object
    init_args,                 \* <<max_image_dim_px, max_processed_image_dim_px>> as given
    slide_dimensions,          \* slide -> larger side of each pyramid level
    max_image_dim_px,
    max_processed_image_dim_px,
    create_masks,
    img_names,                 \* file -> the name valtils.get_name gives it
    img_format,                \* file -> its image format
    reader_cls,                \* the reader class given to register, or NoneReader
    do_rigid,                  \* "full", "skip" or "partial"
    tform_dict,                \* partial mode: slide -> "none" | "id" | "flip"
    imgs_ordered,
    reference_img_f,           \* a slide, or NoneSlide
    non_rigid_registrar_cls,   \* "cls" or "None"
    crop,
    size,
    slide_dict,                \* sequence of slides in ingest order
    aligned_img_shape_rc,
    aligned_slide_shape_rc,
    reference_img_idx,
    mask_dict,
    rigid_registrar,           \* NoneRegistrar, FalseRegistrar or the registrar
    non_rigid_bbox,            \* Valis._non_rigid_bbox
    full_displacement_shape_rc,
    summary_df,                \* the "from" column, position -> set of slides
    summary_rTRE,              \* the rTRE columns, position -> row
    img_names_list,            \* the name list prep built, position -> set of slides
    \* attributes of each Slide
    reader,                    \* file -> the reader class its Slide was built with
    image,                     \* larger side of Slide.image
    processed_img,             \* larger side of Slide.processed_img
    level_read,                \* pyramid level chosen at ingest and at preprocessing
    rigid_reg_mask,            \* the slide's mask on its processed image
    pixels,                    \* what each copy of the processed images holds
    stack_idx,
    M,
    reg_img_shape_rc,
    fixed_slide,
    non_rigid_reg_mask,
    dxdy_np,                   \* Slide._bk_dxdy_np / _fwd_dxdy_np
    stored_dxdy,
    dxdy_file,                 \* the slide's two displacement files on disk
    \* the call in progress
    pc,
    loop_i,
    stages,                    \* stages started in this register call
    failed_stage,
    result,
    escaped,
    reg_f,                     \* the pickled set artifact on disk
    summary_csv,
    micro_calls,
    last_micro,
    prep_level,                \* the pyramid level the preparation last read, and for what
    shape_call,                \* the last get_aligned_slide_shape or warp_slide call
    \* results on disk
    paths,                     \* the directory tree each path attribute points into
    saved,                     \* the files the last warp-and-save call wrote
    thumbnails,                \* slide -> names of the thumbnail files written
    last_save                  \* outcome of the last warp-and-save or merge call

cfg_vars == <<original_img_list, init_args, slide_dimensions, create_masks, do_rigid,
              tform_dict, imgs_ordered, crop, img_names, img_format, reader_cls>>
ingest_vars == <<max_image_dim_px, max_processed_image_dim_px, image, processed_img,
                 level_read, rigid_reg_mask, reader, pixels>>
\* the ingest state that the rigid stage leaves alone
slide_img_vars == <<max_image_dim_px, max_processed_image_dim_px, image, processed_img,
                    level_read, rigid_reg_mask, reader>>
set_vars == <<reference_img_f, non_rigid_registrar_cls, size, slide_dict,
              aligned_img_shape_rc, aligned_slide_shape_rc, reference_img_idx,
              mask_dict, rigid_registrar, non_rigid_bbox,
              full_displacement_shape_rc, summary_df, summary_rTRE,
              img_names_list>>
rigid_slide_vars == <<stack_idx, M, reg_img_shape_rc, fixed_slide>>
nr_slide_vars == <<non_rigid_reg_mask, dxdy_np, stored_dxdy, dxdy_file>>
call_vars == <<pc, loop_i, stages, failed_stage, result, escaped, reg_f,
               summary_csv, micro_calls, last_micro, prep_level, shape_call>>
results_vars == <<paths, saved, thumbnails, last_save>>
vars == <<cfg_vars, ingest_vars, set_vars, rigid_slide_vars, nr_slide_vars, call_vars,
          results_vars>>

(* ------------------------------- ingest ------------------------------- *)
(* The size budgets bound an image's larger side, max(w, h); the ingest     *)
(* model keeps that one number per pyramid level and per image.  It is      *)
(* independent of the axis along which the registration geometry is         *)
(* modelled.                                                                *)

\* the pyramids a reader reports, level 0 the largest: one level, or two
\* with the second half the first
Pyramids ==
    {<<a>> : a \in 1..MaxDim} \cup {<<a, (a + 1) \div 2>> : a \in 2..MaxDim}

\* the pairs <<max_image_dim_px, max_processed_image_dim_px>> a caller passes
DimArgs == (1..MaxDim) \X (1..MaxDim)

\* max_image_dim_px stored as passed
InitMaxImageDimAsGiven(img_px, proc_px) == img_px

\* Valis.__init__: max_image_dim_px is raised to max_processed_image_dim_px
InitMaxImageDim(img_px, proc_px) == IF img_px < proc_px THEN proc_px ELSE img_px

\* np.where(dims.max(axis=1) < max_dim)[0][0] when a level is in range, the
\* last level otherwise (0-based)
LevelInRange(dims, max_dim) ==
    LET levels_in_range == {i \in 1..Len(dims) : dims[i] < max_dim} IN
    IF levels_in_range # {}
    THEN (CHOOSE i \in levels_in_range : \A j \in levels_in_range : i <= j) - 1
    ELSE Len(dims) - 1

\* warp_tools.rescale_img(img, num / den): the larger side of the result
RescaleImg(dim, num, den) == (dim * num) \div den

\* scaling = max_dim / dim; the image is rescaled when scaling < 1
ScaleToMax(dim, max_dim) ==
    IF max_dim < dim THEN RescaleImg(dim, max_dim, dim) ELSE dim

\* slide_io.get_slide_reader(f, series): the reader class of the file's format
GetSlideReader(f) == img_format[f]

(* convert_imgs: the local reader_cls after the i-th file of the loop; it is *)
(* bound by the first file when None was given and never rebound            *)
RECURSIVE ReaderCls(_)
ReaderCls(i) ==
    IF reader_cls # NoneReader THEN reader_cls
    ELSE IF i = 1 THEN GetSlideReader(original_img_list[1])
    ELSE ReaderCls(i - 1)

(* convert_imgs: self.slide_dict after the files from the i-th on are added  *)
(* to d, the values of the dictionary in key order.  A key keeps the place  *)
(* of its first insertion and holds the Slide of its last one.              *)
RECURSIVE ConvertLoop(_, _)
ConvertLoop(i, d) ==
    IF i > NumImgs THEN d
    ELSE LET f == original_img_list[i]
             hit == {k \in 1..Len(d) : img_names[d[k]] = img_names[f]}
         IN ConvertLoop(i + 1,
                        IF hit = {} THEN Append(d, f)
                        ELSE [k \in 1..Len(d) |-> IF k \in hit THEN f ELSE d[k]])

\* the files whose Slide is in slide_dict once convert_imgs has run
KeptSlides == LET d == ConvertLoop(1, <<>>) IN {d[k] : k \in 1..Len(d)}

\* self.slide_dict.values()
SlideDictValues == {slide_dict[k] : k \in 1..Len(slide_dict)}

\* img_max_dims.min()
MinMaxWh(imgs) ==
    LET kept == KeptSlides IN
    CHOOSE m \in {imgs[s] : s \in kept} : \A s \in kept : m <= imgs[s]

(* Valis.check_img_max_dims on images whose larger sides are imgs: the two  *)
(* budgets and the images it leaves                                         *)
CheckImgMaxDims(imgs, max_img, max_proc) ==
    LET min_max_wh == MinMaxWh(imgs)
        kept == KeptSlides
        any_scaled == \E s \in kept : min_max_wh < imgs[s]
        new_max_img == IF any_scaled THEN min_max_wh ELSE max_img
    IN [max_image_dim_px |-> new_max_img,
        max_processed_image_dim_px |->
            IF max_proc > new_max_img THEN new_max_img ELSE max_proc,
        image |-> IF any_scaled
                  THEN [s \in Slides |-> ScaleToMax(imgs[s], new_max_img)]
                  ELSE imgs]

(* processor.create_mask() for slide s, on its processed image: all of the  *)
(* image, or tissue at its first or at its last pixel only                  *)
TissueMasks(s) ==
    {Const(ProcLen(s), 255),
     [i \in 1..ProcLen(s) |-> IF i = 1 THEN 255 ELSE 0],
     [i \in 1..ProcLen(s) |-> IF i = ProcLen(s) THEN 255 ELSE 0]}

\* the masks process_imgs gives the slides: np.full(shape, 255) without
\* create_masks
RigidRegMasks ==
    IF create_masks THEN {m \in [Slides -> UNION {TissueMasks(s) : s \in Slides}] :
                             \A s \in Slides : m[s] \in TissueMasks(s)}
    ELSE {[s \in Slides |-> Const(ProcLen(s), 255)]}

\* processor.process_image(): the processed image has the size of Slide.image
ProcessImage(s) == image[s]

(* The pixels of a processed image are told by how they were made: "None",  *)
(* "processed" as process_imgs left them, or "denoised".  pixels.mem is     *)
(* Slide.processed_img, pixels.file the image in processed_img_f, and       *)
(* pixels.img_obj the image and registered image of the registrar's object. *)
NoneImgObj == [image |-> "None", registered_img |-> "None"]

NonePixels ==
    [denoise_calls |-> 0,
     mem |-> [s \in Slides |-> "None"],
     file |-> [s \in Slides |-> "None"],
     img_obj |-> [s \in Slides |-> NoneImgObj]]

\* preprocessing.denoise_img(img, mask): a new image
DenoiseImg(img) == IF img = "None" THEN "None" ELSE "denoised"

(* Valis.denoise_images: the denoised image of every slide in slide_dict is *)
(* saved to the slide's processed_img_f                                     *)
DenoiseImages(px) ==
    [px EXCEPT !.denoise_calls = @ + 1,
               !.file = [s \in Slides |->
                           IF s \in SlideDictValues THEN DenoiseImg(px.mem[s])
                           ELSE px.file[s]]]

(* SerialRigidRegistrar.generate_img_obj_list: the image objects are read   *)
(* from the files of processed_dir; the registered image is the warped image *)
GenerateImgObjList(px) ==
    [px EXCEPT !.img_obj = [s \in Slides |->
                               [image |-> px.file[s], registered_img |-> px.file[s]]]]

\* rigid_register with the image objects left as the registrar built them
ReplaceDenoisedSkipped(px) ==
    [px EXCEPT !.file = [s \in Slides |-> px.img_obj[s].image]]

(* rigid_register: "Replace with unblurred image", and the thumbnail of the *)
(* image object's image that then replaces the processed image file         *)
ReplaceDenoised(px) ==
    [px EXCEPT !.img_obj = [s \in Slides |->
                               [image |-> px.mem[s], registered_img |-> px.mem[s]]],
               !.file = [s \in Slides |-> px.mem[s]]]

(* ------------------------- construction ------------------------------- *)
TformChoices == {"none", "id", "flip"}

(* Valis.__init__: the state of a freshly constructed set *)
InitWith(modes) ==
    /\ original_img_list \in {[i \in 1..n |-> i] : n \in 1..NSlides}
    /\ do_rigid \in modes
    /\ tform_dict \in [Slides -> TformChoices]
    /\ (do_rigid # "partial" => tform_dict = [s \in Slides |-> "none"])
    /\ imgs_ordered \in BOOLEAN
    /\ reference_img_f \in Slides \cup {NoneSlide}
    /\ non_rigid_registrar_cls \in {"cls", "None"}
    /\ crop = IF reference_img_f = NoneSlide THEN CROP_OVERLAP ELSE CROP_REF
    /\ size = 0
    /\ slide_dict = <<>>
    /\ aligned_img_shape_rc = NoneShape
    /\ aligned_slide_shape_rc = NoneShape
    /\ reference_img_idx = NoneIdx
    /\ mask_dict = NoneMaskDict
    /\ rigid_registrar = NoneRegistrar
    /\ non_rigid_bbox = NoneBBox
    /\ full_displacement_shape_rc = NoneShape
    /\ summary_df = <<>>
    /\ summary_rTRE = <<>>
    /\ img_names_list = <<>>
    /\ stack_idx = [s \in Slides |-> NoneIdx]
    /\ M = [s \in Slides |-> NoneM]
    /\ reg_img_shape_rc = [s \in Slides |-> NoneShape]
    /\ fixed_slide = [s \in Slides |-> NoneSlide]
    /\ non_rigid_reg_mask = [s \in Slides |-> NoneField]
    /\ dxdy_np = [s \in Slides |-> [bk |-> NoneField, fwd |-> NoneField]]
    /\ stored_dxdy = [s \in Slides |-> FALSE]
    /\ dxdy_file = [s \in Slides |-> [bk |-> NoneField, fwd |-> NoneField]]
    /\ pc = "idle"
    /\ loop_i = 0
    /\ stages = <<>>
    /\ failed_stage = "none"
    /\ result = "not_called"
    /\ escaped = FALSE
    /\ reg_f = "absent"
    /\ summary_csv = "absent"
    /\ micro_calls = 0
    /\ last_micro = NoMicro
    /\ prep_level = NonePrepLevel
    /\ shape_call = NoneShapeCall
    /\ paths = [dst_dir |-> 1, data_dir |-> 1, reg_f |-> NoneDir, loaded_from |-> NoneDir,
                processed_img_f |-> [s \in Slides |-> NoneDir],
                bk_dxdy_f |-> [s \in Slides |-> NoneDir],
                rigid_reg_img_f |-> [s \in Slides |-> NonePath],
                non_rigid_reg_img_f |-> [s \in Slides |-> NonePath],
                nr_rigid_reg_img_f |-> [s \in Slides |-> NonePath]]
    /\ saved = {}
    /\ thumbnails = [s \in Slides |-> [rigid |-> NoneName, non_rigid |-> NoneName]]
    /\ last_save = [fn |-> "None", calls |-> 0]

\* the ways file names repeat within a set, each told by the file that first
\* has the name
NameLists ==
    {f \in [Slides -> Slides] :
        /\ f[1] = 1
        /\ \A s \in Slides \ {1} : \E o \in 1..(s - 1) : f[s] <= f[o] + 1}

(* Valis.__init__ and the arguments of register: the size budgets and       *)
(* create_masks, the files' pyramids, names and formats, and reader_cls     *)
InitIngestFiles(args, pyramids, masks, names, formats, readers) ==
    /\ img_names \in names
    /\ img_format \in formats
    /\ reader_cls \in readers
    /\ reader = [s \in Slides |-> NoneReader]
    /\ pixels = NonePixels
    /\ init_args \in args
    /\ create_masks \in masks
    /\ slide_dimensions \in [Slides -> pyramids]
    /\ max_image_dim_px = InitMaxImageDim(init_args[1], init_args[2])
    /\ max_processed_image_dim_px = init_args[2]
    /\ image = [s \in Slides |-> NoneShape]
    /\ processed_img = [s \in Slides |-> NoneShape]
    /\ level_read = [s \in Slides |-> [convert |-> NoneIdx, process |-> NoneIdx]]
    /\ rigid_reg_mask = [s \in Slides |-> NoneField]

\* sets of files of one format with a name each, registered without reader_cls
InitIngest(args, pyramids, masks) ==
    InitIngestFiles(args, pyramids, masks, {InputOrder}, {[s \in Slides |-> 1]},
                    {NoneReader})

\* sets built with equal budgets and without tissue masks on single-level
\* files of the largest size
Init ==
    /\ InitWith({"full", "skip", "partial"})
    /\ InitIngest({<<MaxDim, MaxDim>>}, {<<MaxDim>>}, {FALSE})

(* -------------------- serial rigid registrar objects ------------------ *)
\* SerialRigidRegistrar: index of the reference in the sorted list when the
\* caller names none (the middle of the stack)
MiddleIdx == NumImgs \div 2

RefIdxIn(order) ==
    IF reference_img_f # NoneSlide THEN PosOf(order, reference_img_f) ELSE MiddleIdx

\* SerialRigidRegistrar.get_iter_order: (moving, fixed) index pairs walking the
\* sorted chain from the reference outward
IterOrder(r) ==
    [k \in 1..(NumImgs - 1) |->
        IF k <= r THEN <<r - k, r - k + 1>> ELSE <<k, k - 1>>]

\* every image object given the first position
SortedStackIdxFirst(i) == 0

\* the index assigned to the i-th image object of an already sorted list
SortedStackIdx(i) == i

\* the caller's matrix for a slide, rescaled to the processed image
SuppliedM(s, kind) ==
    IF kind = "flip" THEN [lin |-> -1, t |-> ProcLen(s) - 1] ELSE IdM

\* transformer.estimate(dst_xy, src_xy) with the fixed image's keypoints
\* warped by prev_M: the moving image inherits prev_M
EstimateM(prev_M) == prev_M

\* the image warped into a frame of its own size
RegisteredShapeOwn(s, out_rc) == ProcLen(s)

\* warp_tools.warp_img(img, M, out_shape_rc=out_rc).shape for image s
RegisteredShape(s, out_rc) == out_rc

(* The "Find M if not provided" loop of rigid_register_partial over the      *)
(* pairs of iter_order.  prev_M is the loop's local: "unbound" until the     *)
(* first assignment.  Returns [ok, M, fixed_obj].                            *)
RECURSIVE FindMissingM(_, _, _, _, _, _, _)
FindMissingM(pairs, k, order, r, named, prev_M, acc) ==
    IF k > Len(pairs) THEN [ok |-> TRUE, M |-> acc.M, fixed_obj |-> acc.fixed_obj]
    ELSE
      LET mov == order[pairs[k][1] + 1]
          fix == order[pairs[k][2] + 1]
      IN IF named[mov] # "none"
         THEN FindMissingM(pairs, k + 1, order, r, named, prev_M, acc)
         ELSE
           LET pm == IF pairs[k][2] = r THEN IdM ELSE prev_M IN
           IF pm = UnboundM
           THEN [ok |-> FALSE, M |-> acc.M, fixed_obj |-> acc.fixed_obj]
           ELSE LET m == EstimateM(pm) IN
                FindMissingM(pairs, k + 1, order, r, named, m,
                             [M |-> [acc.M EXCEPT ![mov] = m],
                              fixed_obj |-> [acc.fixed_obj EXCEPT ![mov] = fix]])

(* Valis.rigid_register_partial: the registrar it returns for a sorted list  *)
(* `order`; kind "raised" when the loop reads prev_M before assigning it.   *)
RigidRegisterPartial(order) ==
    LET named == IF do_rigid = "skip" THEN [s \in Slides |-> "id"] ELSE tform_dict
        r == RefIdxIn(order)
        ref == order[r + 1]
        out_rc == ProcLen(ref)
        M0 == [s \in Slides |-> IF named[s] # "none" THEN SuppliedM(s, named[s]) ELSE IdM]
        found == FindMissingM(IterOrder(r), 1, order, r, named, UnboundM,
                              [M |-> M0, fixed_obj |-> [s \in Slides |-> NoneSlide]])
    IN IF ~found.ok THEN [kind |-> "raised"]
       ELSE [kind |-> "registrar", img_obj_list |-> order,
             stack_idx |-> [s \in Slides |->
                              IF imgs_ordered THEN SortedStackIdx(PosOf(order, s))
                              ELSE PosOf(order, s)],
             reference_img_idx |-> r,
             reference_img_f |-> ref,
             M |-> found.M,
             fixed_obj |-> found.fixed_obj,
             registered_shape_rc |-> [s \in Slides |-> RegisteredShape(s, out_rc)]]

(* serial_rigid.register_images: the registrar of a full rigid registration *)
SerialRigidRegisterImages(order) ==
    LET r == RefIdxIn(order)
        pairs == IterOrder(r)
        canonical == SeqMax([i \in 1..NumImgs |-> ProcLen(i)])
    IN [kind |-> "registrar", img_obj_list |-> order,
        stack_idx |-> [s \in Slides |-> PosOf(order, s)],
        reference_img_idx |-> r,
        reference_img_f |-> order[r + 1],
        M |-> [s \in Slides |-> IdM],
        fixed_obj |-> [s \in Slides |->
                         IF s = order[r + 1] THEN NoneSlide
                         ELSE LET k == CHOOSE k \in 1..Len(pairs) :
                                           order[pairs[k][1] + 1] = s
                              IN order[pairs[k][2] + 1]],
        registered_shape_rc |-> [s \in Slides |-> RegisteredShape(s, canonical)]]

(* ---------------------------- crop masks ------------------------------ *)
\* Valis.get_ref_img_mask
GetRefImgMask(rr) ==
    LET ref == rr.reference_img_f IN
    [mask |-> WarpMask(ProcLen(ref), rr.M[ref], rr.registered_shape_rc[ref]),
     bbox |-> <<-(rr.M[ref].t), ProcLen(ref)>>]

\* Valis.get_all_overlap_mask
GetAllOverlapMask(rr) ==
    LET ref == rr.reference_img_f
        w == rr.registered_shape_rc[ref]
        combo == [i \in 1..w |->
                    Cardinality({s \in Slides :
                        MaskAt(WarpImg(rigid_reg_mask[s], rr.M[s],
                                       rr.registered_shape_rc[s]), i) > 0})]
        mask == Hysteresis(combo, size)
    IN [mask |-> mask, bbox |-> MaskBBox(mask)]

\* Valis.get_null_overlap_mask
GetNullOverlapMask(rr) ==
    LET reg_shape == rr.registered_shape_rc[rr.img_obj_list[1]] IN
    [mask |-> Const(reg_shape, 1), bbox |-> <<0, reg_shape>>]

\* Valis.create_crop_masks
CreateCropMasks(rr) ==
    [k \in CropKeys |->
        IF k = CROP_REF THEN GetRefImgMask(rr)
        ELSE IF k = CROP_OVERLAP THEN GetAllOverlapMask(rr)
        ELSE GetNullOverlapMask(rr)]

(* --------------------------- Valis.register --------------------------- *)
\* a clause that names one exception class only
ExceptClauseIOError(kind) == kind = "IOError"

\* the handler's clause `except Exception`: the exception kinds it catches
ExceptClause(kind) == kind = "Exception"

\* the non-rigid stage entered without the test
AfterRigidUntested == "non_rigid"

\* register's test after rigid registration: the stage that follows it
AfterRigid == IF non_rigid_registrar_cls # "None" THEN "non_rigid" ELSE "measure"

\* a statement of `stage` raises inside register's try block
Fail(stage) == pc' = "except" /\ failed_stage' = stage

Register ==
    /\ pc = "idle" /\ result = "not_called"
    /\ pc' = "convert" /\ result' = "running"
    /\ UNCHANGED <<cfg_vars, results_vars, ingest_vars, set_vars, rigid_slide_vars, nr_slide_vars, loop_i,
                   stages, failed_stage, escaped, reg_f, summary_csv,
                   micro_calls, last_micro, prep_level, shape_call>>

ConvertImgs ==
    /\ pc = "convert"
    /\ stages' = Append(stages, "convert")
    /\ \/ LET level == [s \in Slides |->
                           LevelInRange(slide_dimensions[s], max_image_dim_px)]
              imgs == [s \in Slides |->
                          ScaleToMax(slide_dimensions[s][level[s] + 1],
                                     max_image_dim_px)]
              checked == CheckImgMaxDims(imgs, max_image_dim_px,
                                         max_processed_image_dim_px)
              kept == KeptSlides
          IN /\ size' = NumImgs
             /\ slide_dict' = ConvertLoop(1, <<>>)
             /\ reader' = [s \in Slides |-> ReaderCls(PosOf(original_img_list, s) + 1)]
             /\ level_read' = [s \in Slides |->
                                 [level_read[s] EXCEPT !.convert = level[s]]]
             /\ image' = [s \in Slides |-> IF s \in kept THEN checked.image[s]
                                            ELSE NoneShape]
             /\ max_image_dim_px' = checked.max_image_dim_px
             /\ max_processed_image_dim_px' = checked.max_processed_image_dim_px
             /\ pc' = "process"
             /\ UNCHANGED failed_stage
       \/ /\ Fail("convert")
          /\ UNCHANGED <<size, slide_dict, reader, level_read, image, max_image_dim_px,
                         max_processed_image_dim_px>>
    /\ UNCHANGED <<cfg_vars, results_vars, processed_img, rigid_reg_mask, pixels, reference_img_f, non_rigid_registrar_cls,
                   aligned_img_shape_rc, aligned_slide_shape_rc, reference_img_idx,
                   mask_dict, rigid_registrar, non_rigid_bbox,
                   full_displacement_shape_rc, summary_df, summary_rTRE, img_names_list,
                   rigid_slide_vars, nr_slide_vars, loop_i, result, escaped,
                   reg_f, summary_csv, micro_calls, last_micro, prep_level, shape_call>>

ProcessImgs ==
    /\ pc = "process"
    /\ stages' = Append(stages, "process")
    /\ \/ /\ level_read' = [s \in Slides |->
                 IF s \in SlideDictValues
                 THEN [level_read[s] EXCEPT !.process =
                          LevelInRange(slide_dimensions[s], max_processed_image_dim_px)]
                 ELSE level_read[s]]
          /\ processed_img' = [s \in Slides |->
                 ScaleToMax(ProcessImage(s), max_processed_image_dim_px)]
          /\ rigid_reg_mask' \in {[s \in Slides |-> IF s \in SlideDictValues THEN m[s]
                                                     ELSE NoneField] :
                                   m \in RigidRegMasks}
          /\ paths' = [paths EXCEPT !.processed_img_f =
                          [s \in Slides |-> IF s \in SlideDictValues THEN paths.data_dir
                                            ELSE NoneDir]]
          /\ pixels' = [pixels EXCEPT
                           !.mem = [s \in Slides |-> IF s \in SlideDictValues THEN "processed"
                                                     ELSE "None"],
                           !.file = [s \in Slides |-> IF s \in SlideDictValues THEN "processed"
                                                      ELSE "None"]]
          /\ pc' = "rigid"
          /\ UNCHANGED failed_stage
       \/ /\ Fail("process")
          /\ UNCHANGED <<level_read, processed_img, rigid_reg_mask, paths, pixels>>
    /\ UNCHANGED <<cfg_vars, saved, thumbnails, last_save, max_image_dim_px, max_processed_image_dim_px, image,
                   reader, set_vars, rigid_slide_vars, nr_slide_vars, loop_i,
                   result, escaped, reg_f, summary_csv, micro_calls, last_micro, prep_level, shape_call>>

(* Valis.rigid_register up to the loop over the registrar's image objects    *)
RigidRegister ==
    /\ pc = "rigid"
    /\ stages' = Append(stages, "rigid")
    /\ \E order \in (IF imgs_ordered THEN {InputOrder} ELSE Perms) :
         LET rr == IF do_rigid = "full" THEN SerialRigidRegisterImages(order)
                   ELSE RigidRegisterPartial(order)
         IN \/ /\ do_rigid = "full"
               /\ rigid_registrar' = FalseRegistrar
               /\ pixels' = DenoiseImages(pixels)
               /\ pc' = "returned" /\ result' = "None3" /\ failed_stage' = "rigid"
               /\ UNCHANGED <<aligned_img_shape_rc, reference_img_idx,
                              reference_img_f, mask_dict, loop_i>>
            \/ /\ rr.kind = "raised"
               /\ Fail("rigid")
               /\ pixels' = DenoiseImages(pixels)
               /\ UNCHANGED <<rigid_registrar, aligned_img_shape_rc,
                              reference_img_idx, reference_img_f, mask_dict,
                              loop_i, result>>
            \/ /\ rr.kind = "registrar"
               /\ rigid_registrar' = rr
               /\ pixels' = GenerateImgObjList(DenoiseImages(pixels))
               /\ aligned_img_shape_rc' = rr.registered_shape_rc[rr.img_obj_list[1]]
               /\ reference_img_idx' = rr.reference_img_idx
               /\ reference_img_f' = rr.reference_img_f
               /\ \/ /\ mask_dict' = CreateCropMasks(rr)
                     /\ IF CreateCropMasks(rr)[crop].bbox = NoneBBox
                        THEN Fail("rigid") /\ UNCHANGED loop_i
                        ELSE pc' = "rigid_loop" /\ loop_i' = 0 /\ UNCHANGED failed_stage
                  \/ \* xy2bbox raises on the points of an empty overlap mask
                     /\ GetAllOverlapMask(rr).bbox = NoneBBox
                     /\ Fail("rigid")
                     /\ UNCHANGED <<mask_dict, loop_i>>
               /\ UNCHANGED result
    /\ UNCHANGED <<cfg_vars, results_vars, slide_img_vars, non_rigid_registrar_cls, size, slide_dict,
                   aligned_slide_shape_rc, non_rigid_bbox,
                   full_displacement_shape_rc, summary_df, summary_rTRE, img_names_list,
                   rigid_slide_vars, nr_slide_vars, escaped, reg_f, summary_csv,
                   micro_calls, last_micro, prep_level, shape_call>>

(* one iteration of rigid_register's loop "Update attributes in slide_obj"   *)
RigidUpdateSlide ==
    /\ pc = "rigid_loop" /\ loop_i < NumImgs
    /\ LET s == rigid_registrar.img_obj_list[loop_i + 1] IN
       /\ M' = [M EXCEPT ![s] = rigid_registrar.M[s]]
       /\ stack_idx' = [stack_idx EXCEPT ![s] = rigid_registrar.stack_idx[s]]
       /\ reg_img_shape_rc' =
             [reg_img_shape_rc EXCEPT ![s] = rigid_registrar.registered_shape_rc[s]]
       /\ paths' = [paths EXCEPT !.rigid_reg_img_f[s] =
                       [dir |-> paths.data_dir,
                        file |-> ThumbnailName(rigid_registrar.stack_idx[s],
                                               Digits(Len(rigid_registrar.img_obj_list)),
                                               "", s)]]
       /\ IF rigid_registrar.stack_idx[s] = reference_img_idx
          THEN /\ loop_i' = loop_i + 1
               /\ UNCHANGED <<fixed_slide, pc, failed_stage>>
          ELSE IF rigid_registrar.fixed_obj[s] = NoneSlide
          THEN /\ Fail("rigid")
               /\ UNCHANGED <<fixed_slide, loop_i>>
          ELSE /\ fixed_slide' = [fixed_slide EXCEPT ![s] = rigid_registrar.fixed_obj[s]]
               /\ loop_i' = loop_i + 1
               /\ UNCHANGED <<pc, failed_stage>>
    /\ UNCHANGED <<cfg_vars, saved, thumbnails, last_save, ingest_vars, set_vars, nr_slide_vars, stages,
                   result, escaped, reg_f, summary_csv, micro_calls, last_micro, prep_level, shape_call>>

(* the rest of rigid_register (thumbnails) and register's test that follows  *)
RigidFinish ==
    /\ pc = "rigid_loop" /\ loop_i = NumImgs
    /\ \/ /\ thumbnails' = [s \in Slides |->
                             [thumbnails[s] EXCEPT !.rigid = paths.rigid_reg_img_f[s].file]]
          /\ pixels' = ReplaceDenoised(pixels)
          /\ pc' = AfterRigid
          /\ UNCHANGED failed_stage
       \/ Fail("rigid") /\ UNCHANGED <<thumbnails, pixels>>
    /\ UNCHANGED <<cfg_vars, paths, saved, last_save, slide_img_vars, set_vars, rigid_slide_vars, nr_slide_vars, loop_i,
                   stages, result, escaped, reg_f, summary_csv, micro_calls,
                   last_micro, prep_level, shape_call>>

(* ----------------------- displacement fields -------------------------- *)
\* Valis.get_ref_slide
GetRefSlide == reference_img_f

\* Valis._create_non_rigid_reg_mask_from_bbox: the bounding box of the area
\* covered by every rigidly warped slide, filled
CreateNonRigidRegMaskFromBbox ==
    LET ref == GetRefSlide
        w == reg_img_shape_rc[ref]
        combo == [i \in 1..w |->
                    Cardinality({s \in Slides :
                        MaskAt(WarpMask(ProcLen(s), M[s], reg_img_shape_rc[s]), i) > 0})]
        overlap_mask == [i \in 1..w |-> IF combo[i] = size THEN 1 ELSE 0]
        overlap_bbox == MaskBBox(overlap_mask)
    IN [i \in 1..w |->
          IF i - 1 >= overlap_bbox[1] /\ i - 1 < overlap_bbox[1] + overlap_bbox[2]
          THEN 255 ELSE 0]

\* Valis._create_non_rigid_reg_mask_from_rigid_masks: the rigidly warped
\* slide masks combined with the hysteresis threshold
CreateNonRigidRegMaskFromRigidMasks ==
    LET combo == [i \in 1..aligned_img_shape_rc |->
                    Cardinality({s \in Slides :
                        MaskAt(WarpImg(rigid_reg_mask[s], M[s],
                                       reg_img_shape_rc[s]), i) > 0})]
        temp_non_rigid_mask == Hysteresis(combo, size)
    IN [i \in 1..aligned_img_shape_rc |-> 255 * temp_non_rigid_mask[i]]

\* Valis.create_non_rigid_reg_mask
CreateNonRigidRegMask ==
    IF \E s \in Slides : rigid_reg_mask[s] # NoneField
    THEN CreateNonRigidRegMaskFromRigidMasks
    ELSE CreateNonRigidRegMaskFromBbox

\* warp_tools.resize_img by an integer factor (nearest neighbour)
ResizeImg(img, k) == [i \in 1..(k * Len(img)) |-> img[((i - 1) \div k) + 1]]

\* Valis.pad_displacement: black(out_shape).insert(dxdy, x, y)
PadDisplacement(dxdy, out_shape_rc, bbox_xywh) ==
    [i \in 1..out_shape_rc |->
        IF i - 1 >= bbox_xywh[1] /\ i - 1 < bbox_xywh[1] + Len(dxdy)
        THEN dxdy[i - bbox_xywh[1]] ELSE 0]

\* pyvips extract_area(*bbox_xywh)
ExtractArea(img, bbox_xywh) == [i \in 1..bbox_xywh[2] |-> img[bbox_xywh[1] + i]]

\* Slide.get_bk_dxdy / Slide.get_fwd_dxdy
\* read with the set recording `shape` and `bbox`
ReadDxdy(s, dir, shape, bbox) ==
    IF stored_dxdy[s]
    THEN PadDisplacement(dxdy_file[s][dir], shape, bbox)
    ELSE dxdy_np[s][dir]

GetBkDxdy(s) == ReadDxdy(s, "bk", full_displacement_shape_rc, non_rigid_bbox)

GetFwdDxdy(s) == ReadDxdy(s, "fwd", full_displacement_shape_rc, non_rigid_bbox)

\* the memory test of prep_images_for_large_non_rigid_registration
UseTiler(estimated_gb) == estimated_gb > TILER_THRESH_GB

\* the estimates a call meets: nothing, the threshold itself, and the sizes
\* above it
EstimatedGBs == {0, TILER_THRESH_GB} \cup ((TILER_THRESH_GB + 1)..MaxEstGB)

(* Valis.prep_images_for_large_non_rigid_registration for a frame k times    *)
(* the rigid one.  It raises when no mask is given (closest_img_level is     *)
(* never bound) and when use_tiler is set (processing_mask is only bound in  *)
(* the branch `if not use_tiler`).                                           *)
PrepImages(k, mask, estimated_gb) ==
    LET full_out_shape == k * aligned_img_shape_rc
        bbox == MaskBBox(mask)
        mask_bbox_xywh == <<k * bbox[1], k * bbox[2]>>
    IN IF mask = NoneField \/ UseTiler(estimated_gb)
       THEN [raised |-> TRUE]
       ELSE [raised |-> FALSE,
             full_out_shape |-> full_out_shape,
             mask_bbox_xywh |-> mask_bbox_xywh,
             out_shape |-> mask_bbox_xywh[2],
             tiled |-> UseTiler(estimated_gb),
             img_names_list |-> [i \in 1..size |-> {s \in Slides : stack_idx[s] = i - 1}]]

\* serial_non_rigid.register_images: the fields solved for slide s on a frame
\* of n pixels; the reference is not moved
SolvedDxdy(s, delta, n) ==
    IF s = GetRefSlide THEN [bk |-> Zeros(n), fwd |-> Zeros(n)]
    ELSE [bk |-> Const(n, delta), fwd |-> Const(n, -delta)]

AddDxdy(a, b) == [i \in 1..Len(a) |-> a[i] + b[i]]

(* prep_images_for_large_non_rigid_registration, the loop's choice of the  *)
(* pyramid level to read for a slide with level sides dims whose required   *)
(* source image has the larger side src_side.  The name closest_img_level is *)
(* bound in the branch with a mask, and when max_img_dim is None.           *)
ClosestImgLevel(dims, src_side, max_img_dim, mask) ==
    IF max_img_dim # "None"
    THEN IF mask # "None"
         THEN LET closest_img_levels == {i \in 1..Len(dims) : dims[i] < src_side} IN
              [bound |-> TRUE,
               level |-> IF closest_img_levels # {}
                         THEN ((CHOOSE i \in closest_img_levels :
                                   \A j \in closest_img_levels : i <= j) - 1) - 1
                         ELSE Len(dims) - 1]
         ELSE [bound |-> FALSE, level |-> 0]
    ELSE [bound |-> TRUE, level |-> 0]

(* one iteration of the loop up to slide_obj.slide2vips(closest_img_level).  *)
(* Without max_img_dim the slides are warped whole: the source image has the *)
(* size of level 0.                                                          *)
PrepReadLevel ==
    \E s \in Slides, src_side \in 1..(MaxDim + 1),
       max_img_dim \in {"None", "given"}, mask \in {"None", "given"} :
        /\ max_img_dim = "None" => src_side = slide_dimensions[s][1]
        /\ LET got == ClosestImgLevel(slide_dimensions[s], src_side, max_img_dim, mask)
           IN prep_level' = [slide |-> s, src_side |-> src_side,
                             max_img_dim |-> max_img_dim, mask |-> mask,
                             bound |-> got.bound, level |-> got.level]
        /\ UNCHANGED <<cfg_vars, ingest_vars, set_vars, rigid_slide_vars, nr_slide_vars,
                       results_vars, pc, loop_i, stages, failed_stage, result, escaped,
                       reg_f, summary_csv, micro_calls, last_micro, shape_call>>

(* ---------------------- Valis.non_rigid_register ---------------------- *)
NonRigidRegister ==
    /\ pc = "non_rigid"
    /\ stages' = Append(stages, "non_rigid")
    /\ \E k \in 1..MaxScale, est \in EstimatedGBs, delta \in 0..MaxDisp :
         LET ref_slide == GetRefSlide
             mask == CreateNonRigidRegMask
             nr_on_scaled_img == k # 1 \/ MaskBBox(mask)[2] # reg_img_shape_rc[ref_slide]
             prep == PrepImages(k, mask, est)
         IN /\ non_rigid_reg_mask' = [s \in Slides |-> mask]
            /\ IF MaskBBox(mask) = NoneBBox \/ (nr_on_scaled_img /\ prep.raised)
               THEN /\ Fail("non_rigid")
                    /\ UNCHANGED <<non_rigid_bbox, full_displacement_shape_rc,
                                   img_names_list, dxdy_np, paths, thumbnails>>
               ELSE /\ paths' = [paths EXCEPT !.nr_rigid_reg_img_f =
                                     [s \in Slides |->
                                        [dir |-> paths.data_dir,
                                         file |-> ThumbnailName(stack_idx[s], Digits(size),
                                                                "", s)]]]
                    /\ thumbnails' = [s \in Slides |->
                                        [thumbnails[s] EXCEPT !.non_rigid =
                                            paths'.nr_rigid_reg_img_f[s].file]]
                    /\ IF nr_on_scaled_img
                       THEN /\ non_rigid_bbox' = prep.mask_bbox_xywh
                            /\ full_displacement_shape_rc' = prep.full_out_shape
                            /\ img_names_list' = prep.img_names_list
                            /\ dxdy_np' = [s \in Slides |->
                                 LET new == SolvedDxdy(s, delta, prep.out_shape) IN
                                 [bk |-> PadDisplacement(new.bk, prep.full_out_shape,
                                                         prep.mask_bbox_xywh),
                                  fwd |-> PadDisplacement(new.fwd, prep.full_out_shape,
                                                          prep.mask_bbox_xywh)]]
                       ELSE /\ full_displacement_shape_rc' = reg_img_shape_rc[ref_slide]
                            /\ dxdy_np' = [s \in Slides |->
                                 SolvedDxdy(s, delta, reg_img_shape_rc[ref_slide])]
                            /\ UNCHANGED <<non_rigid_bbox, img_names_list>>
                    /\ \/ pc' = "measure" /\ UNCHANGED failed_stage
                       \/ Fail("non_rigid")
    /\ UNCHANGED <<cfg_vars, saved, last_save, ingest_vars, reference_img_f, non_rigid_registrar_cls, size,
                   slide_dict, aligned_img_shape_rc, aligned_slide_shape_rc,
                   reference_img_idx, mask_dict, rigid_registrar, summary_df, summary_rTRE,
                   rigid_slide_vars, stored_dxdy, dxdy_file, loop_i, result,
                   escaped, reg_f, summary_csv, micro_calls, last_micro, prep_level, shape_call>>

(* ------------------------- Valis.measure_error ------------------------ *)
\* the rows of the summary table: the slides written at each position
SummaryRows == [i \in 1..size |-> {s \in Slides : stack_idx[s] = i - 1}]

\* measure_error dereferences fixed_slide of every slide but the reference,
\* and averages over the slides other than the reference with their match
\* counts as weights: np.average raises ZeroDivisionError when there is none
\* the median over a slide's matched feature pairs of the distance d to its
\* fixed neighbour, divided by the diagonal of the reference processed image
MedianRTRE(d, s) ==
    [d |-> d, from |-> s, to |-> fixed_slide[s], diagonal |-> processed_img[GetRefSlide]]

NoneRTRE == [d |-> "None", from |-> NoneSlide, to |-> NoneSlide, diagonal |-> 0]

\* the rTRE columns of measure_error's data frame: row i belongs to the slide
\* with stack_idx i, the reference's row is left empty
SummaryRTRE ==
    [i \in 1..size |->
        LET at == {s \in Slides : stack_idx[s] = i - 1 /\ s # GetRefSlide} IN
        IF at = {}
        THEN [original_rTRE |-> NoneRTRE, rigid_rTRE |-> NoneRTRE,
              non_rigid_rTRE |-> NoneRTRE]
        ELSE LET s == CHOOSE s \in at : \A o \in at : o <= s
                 all_og_tre == MedianRTRE("original", s)
                 all_rigid_tre == MedianRTRE("rigid", s)
                 all_nr_tre == IF dxdy_np[s].bk # NoneField
                               THEN MedianRTRE("non_rigid", s) ELSE NoneRTRE
             IN [original_rTRE |-> all_og_tre, rigid_rTRE |-> all_rigid_tre,
                 non_rigid_rTRE |-> all_rigid_tre]]

MeasureErrorRaises ==
    \/ \E s \in Slides : s # GetRefSlide /\ fixed_slide[s] = NoneSlide
    \/ size = 1

MeasureError ==
    /\ pc = "measure"
    /\ stages' = Append(stages, "measure")
    /\ aligned_slide_shape_rc' = MaxScale * aligned_img_shape_rc
    /\ \/ /\ ~MeasureErrorRaises
          /\ summary_df' = SummaryRows
          /\ summary_rTRE' = SummaryRTRE
          /\ pc' = "pickle"
          /\ UNCHANGED failed_stage
       \/ /\ Fail("measure")
          /\ UNCHANGED <<summary_df, summary_rTRE>>
    /\ UNCHANGED <<cfg_vars, results_vars, ingest_vars, reference_img_f, non_rigid_registrar_cls, size,
                   slide_dict, aligned_img_shape_rc, reference_img_idx, mask_dict,
                   rigid_registrar, non_rigid_bbox, full_displacement_shape_rc,
                   img_names_list, rigid_slide_vars, nr_slide_vars, loop_i,
                   result, escaped, reg_f, summary_csv, micro_calls, last_micro, prep_level, shape_call>>

(* Valis.cleanup, then the pickle of the set *)
WriteArtifact ==
    /\ pc = "pickle"
    /\ stages' = Append(stages, "pickle")
    /\ non_rigid_registrar_cls' = "None"
    /\ rigid_registrar' = NoneRegistrar
    /\ paths' = [paths EXCEPT !.reg_f = paths.data_dir]
    /\ \/ /\ reg_f' = "written"
          /\ pc' = "csv"
          /\ UNCHANGED failed_stage
       \/ /\ reg_f' \in {"absent", "partial"}
          /\ Fail("pickle")
    /\ UNCHANGED <<cfg_vars, saved, thumbnails, last_save, ingest_vars, reference_img_f, size, slide_dict,
                   aligned_img_shape_rc, aligned_slide_shape_rc, reference_img_idx,
                   mask_dict, non_rigid_bbox, full_displacement_shape_rc,
                   summary_df, summary_rTRE, img_names_list, rigid_slide_vars, nr_slide_vars,
                   loop_i, result, escaped, summary_csv, micro_calls, last_micro, prep_level, shape_call>>

WriteCsv ==
    /\ pc = "csv"
    /\ stages' = Append(stages, "csv")
    /\ \/ /\ summary_csv' = "written"
          /\ pc' = "returned" /\ result' = "triple"
          /\ UNCHANGED failed_stage
       \/ /\ Fail("csv")
          /\ UNCHANGED <<summary_csv, result>>
    /\ UNCHANGED <<cfg_vars, results_vars, ingest_vars, set_vars, rigid_slide_vars, nr_slide_vars, loop_i,
                   escaped, reg_f, micro_calls, last_micro, prep_level, shape_call>>

(* register's handler: print the traceback, kill the JVM, return the triple *)
(* of Nones.  An exception the clause does not catch leaves register.       *)
ExceptHandler ==
    /\ pc = "except"
    /\ pc' = "returned"
    /\ IF ExceptClause("Exception")
       THEN result' = "None3" /\ UNCHANGED escaped
       ELSE result' = "raised" /\ escaped' = TRUE
    /\ UNCHANGED <<cfg_vars, results_vars, ingest_vars, set_vars, rigid_slide_vars, nr_slide_vars, loop_i,
                   stages, failed_stage, reg_f, summary_csv, micro_calls,
                   last_micro, prep_level, shape_call>>

(* ------------------------ Valis.register_micro ------------------------ *)
\* scale the current field to the frame of out_shape pixels and resize it
RescaleCurrent(current, out_shape) ==
    LET slide_sxy == out_shape \div Len(current) IN
    IF slide_sxy = 1 THEN current
    ELSE ResizeImg([i \in 1..Len(current) |-> slide_sxy * current[i]], slide_sxy)

\* one direction of the loop body: the updated full-frame field of slide s.
\* The slide's current field is read after the set's bbox and shape were
\* overwritten with this call's.
UpdatedDxdy(s, dir, prep, delta) ==
    LET solved == SolvedDxdy(s, delta, prep.out_shape)[dir]
        new == IF prep.out_shape # prep.full_out_shape
               THEN PadDisplacement(solved, prep.full_out_shape, prep.mask_bbox_xywh)
               ELSE solved
        current == ReadDxdy(s, dir, prep.full_out_shape, prep.mask_bbox_xywh)
    IN AddDxdy(RescaleCurrent(current, prep.full_out_shape), new)

(* how far a register_micro call gets once the images are prepared: the     *)
(* number of slides, in slide_dict order, whose fields were assigned, whether *)
(* pickle.dump ran, and whether the call returned.  The solver, a thumbnail  *)
(* write, pickle.dump, measure_error and to_csv can each raise.              *)
MicroOutcomes ==
    {[done |-> j, pickled |-> FALSE, returned |-> FALSE] : j \in 0..NumImgs}
    \cup {[done |-> NumImgs, pickled |-> TRUE, returned |-> r] : r \in BOOLEAN}

\* a register_micro call that gets as far as one of `outcomes`
RegisterMicroWith(outcomes) ==
    /\ pc = "returned" /\ result = "triple"
    /\ micro_calls < MaxMicroCalls
    /\ micro_calls' = micro_calls + 1
    /\ \E k \in 1..MaxScale, est \in EstimatedGBs, delta \in 0..MaxDisp :
         LET ref_slide == GetRefSlide
             mask == non_rigid_reg_mask[ref_slide]
             prep == PrepImages(k, mask, est)
             write_dxdy == prep.tiled
         IN /\ \A s \in Slides :
                  dxdy_np[s].bk # NoneField =>
                      (k * aligned_img_shape_rc) % Len(dxdy_np[s].bk) = 0
            /\ IF prep.raised \/ \E s \in Slides : dxdy_np[s].bk = NoneField
               THEN /\ last_micro' = [status |-> "raised", k |-> k, est |-> est,
                                      delta |-> delta, done |-> 0]
                    /\ UNCHANGED <<non_rigid_bbox, full_displacement_shape_rc,
                                   img_names_list, dxdy_np, stored_dxdy, dxdy_file,
                                   reg_f, summary_df, summary_rTRE, summary_csv, paths>>
               ELSE \E out \in outcomes :
                    LET updated == {slide_dict[i] : i \in 1..out.done} IN
                    /\ last_micro' = [status |-> IF out.returned THEN "returned"
                                                 ELSE "raised",
                                      k |-> k, est |-> est, delta |-> delta,
                                      done |-> out.done]
                    /\ non_rigid_bbox' = prep.mask_bbox_xywh
                    /\ full_displacement_shape_rc' = prep.full_out_shape
                    /\ img_names_list' = prep.img_names_list
                    /\ dxdy_np' = [s \in Slides |->
                         IF write_dxdy \/ s \notin updated THEN dxdy_np[s]
                         ELSE [bk |-> UpdatedDxdy(s, "bk", prep, delta),
                               fwd |-> UpdatedDxdy(s, "fwd", prep, delta)]]
                    /\ stored_dxdy' = [s \in Slides |->
                         (write_dxdy /\ s \in updated) \/ stored_dxdy[s]]
                    /\ dxdy_file' = [s \in Slides |->
                         IF write_dxdy /\ s \in updated
                         THEN [bk |-> ExtractArea(UpdatedDxdy(s, "bk", prep, delta),
                                                  prep.mask_bbox_xywh),
                               fwd |-> ExtractArea(UpdatedDxdy(s, "fwd", prep, delta),
                                                   prep.mask_bbox_xywh)]
                         ELSE dxdy_file[s]]
                    /\ paths' = [paths EXCEPT !.bk_dxdy_f =
                                     [s \in Slides |->
                                        IF write_dxdy /\ s \in updated
                                        THEN paths.data_dir ELSE @[s]]]
                    /\ reg_f' = IF out.pickled THEN "written" ELSE reg_f
                    /\ IF out.returned
                       THEN /\ summary_df' = SummaryRows
                            /\ summary_rTRE' = SummaryRTRE
                            /\ summary_csv' = "written"
                       ELSE UNCHANGED <<summary_df, summary_rTRE, summary_csv>>
    /\ UNCHANGED <<cfg_vars, saved, thumbnails, last_save, ingest_vars, reference_img_f, non_rigid_registrar_cls, size,
                   slide_dict, aligned_img_shape_rc, aligned_slide_shape_rc,
                   reference_img_idx, mask_dict, rigid_registrar,
                   rigid_slide_vars, non_rigid_reg_mask, pc, loop_i, stages,
                   failed_stage, result, escaped, prep_level, shape_call>>

\* register_micro when no statement after the preparation raises
RegisterMicro == RegisterMicroWith({out \in MicroOutcomes : out.returned})

\* register_micro when a statement after the preparation raises
RegisterMicroRaises == RegisterMicroWith({out \in MicroOutcomes : ~out.returned})

(* ------------------------------ behaviours ---------------------------- *)
Next ==
    \/ Register
    \/ ConvertImgs
    \/ ProcessImgs
    \/ RigidRegister
    \/ RigidUpdateSlide
    \/ RigidFinish
    \/ NonRigidRegister
    \/ MeasureError
    \/ WriteArtifact
    \/ WriteCsv
    \/ ExceptHandler

Spec == Init /\ [][Next]_vars

(* register followed by register_micro calls, for sets whose rigid stage   *)
(* estimates every matrix itself                                           *)
InitMicro ==
    /\ InitWith({"full", "partial"})
    /\ InitIngest({<<MaxDim, MaxDim>>}, {<<MaxDim>>}, {FALSE})
    /\ imgs_ordered
    /\ \A s \in Slides : tform_dict[s] # "none" => s = reference_img_f

NextMicro == Next \/ RegisterMicro

SpecMicro == InitMicro /\ [][NextMicro]_vars

\* the same sets when the solver, a write or the error measurement of a
\* register_micro call can fail
NextMicroRaises == NextMicro \/ RegisterMicroRaises

SpecMicroRaises == InitMicro /\ [][NextMicroRaises]_vars

(* register on sets built with create_masks, whose slides get tissue masks, *)
(* and whose rigid stage estimates every matrix itself                      *)
InitMasks ==
    /\ InitWith({"full", "partial"})
    /\ imgs_ordered
    /\ \A s \in Slides : tform_dict[s] # "none" => s = reference_img_f
    /\ InitIngest({<<MaxDim, MaxDim>>}, {<<MaxDim>>}, {TRUE})

SpecMasks == InitMasks /\ [][Next]_vars

(* ingest and preprocessing of sets built with every pair of budgets on     *)
(* files of every pyramid                                                   *)
InitIngestAll ==
    /\ InitWith({"full"})
    /\ imgs_ordered /\ reference_img_f = NoneSlide /\ non_rigid_registrar_cls = "None"
    /\ InitIngest(DimArgs, Pyramids, {FALSE})

NextIngest == Register \/ ConvertImgs \/ ProcessImgs

SpecIngest == InitIngestAll /\ [][NextIngest]_vars

(* ingest of sets whose files repeat names and differ in format, registered *)
(* with and without a reader class                                          *)
InitFiles ==
    /\ InitWith({"full"})
    /\ imgs_ordered /\ reference_img_f = NoneSlide /\ non_rigid_registrar_cls = "None"
    /\ InitIngestFiles({<<MaxDim, MaxDim>>}, {<<MaxDim>>}, {FALSE}, NameLists,
                       [Slides -> 1..NFormats], {NoneReader} \cup (1..NFormats))

SpecFiles == InitFiles /\ [][NextIngest]_vars

\* the level the preparation reads, for files of every pyramid
InitPrep ==
    /\ InitWith({"full"})
    /\ imgs_ordered /\ reference_img_f = NoneSlide /\ non_rigid_registrar_cls = "None"
    /\ InitIngest({<<MaxDim, MaxDim>>}, Pyramids, {FALSE})

SpecPrep == InitPrep /\ [][PrepReadLevel]_vars

(* -------------- saving registered slides, re-loading a set ------------- *)

\* np.round of the fraction n / d: to the nearest integer, ties to even
RoundHalfEven(n, d) ==
    LET q == n \div d
        r == n % d
    IN IF 2 * r < d THEN q
       ELSE IF 2 * r > d THEN q + 1
       ELSE IF q % 2 = 0 THEN q ELSE q + 1

\* tile widths recorded in a slide's metadata, and sides of a warped slide
SideValues == {8 * i : i \in 1..MaxSideUnits}

\* the tile side a slide is saved with when the caller gives none: the
\* recorded optimal width, rescaled for a level other than 0
TileWh(level, optimal_tile_wh, dims, out_side) ==
    IF level = 0 THEN optimal_tile_wh
    ELSE LET rounded == RoundHalfEven(optimal_tile_wh * dims[level + 1], dims[1])
             mult    == rounded - (rounded % 16)
             floored == IF mult < 16 THEN 16 ELSE mult
         IN IF out_side < floored THEN out_side ELSE floored

\* Slide.warp_slide: the file whose pixels are warped
WarpSlideSrc(src_f) == IF src_f = "None" THEN "Slide.src_f" ELSE src_f

\* the levels of a slide's pyramid
Levels(s) == 0..(Len(slide_dimensions[s]) - 1)

Registered == pc = "returned" /\ result = "triple"

\* Slide.warp_and_save_slide(dst_f, level, src_f = src_f), tile_wh not given:
\* warp_slide is called without src_f
SaveSlide(s, level, src_f, optimal_tile_wh, out_side) ==
    [slide |-> s, kind |-> "warped", dst_f |-> <<s, ".ome.tiff">>, level |-> level,
     src_f |-> src_f, read_from |-> WarpSlideSrc("None"),
     tile_wh |-> TileWh(level, optimal_tile_wh, slide_dimensions[s], out_side)]

WarpAndSaveSlide ==
    /\ Registered
    /\ last_save.calls < MaxSaveCalls
    /\ \E s \in Slides, src_f \in {"None", "alt"}, opt \in SideValues, out \in SideValues :
         \E level \in Levels(s) :
            saved' = {SaveSlide(s, level, src_f, opt, out)}
    /\ last_save' = [fn |-> "warp_and_save_slide", calls |-> last_save.calls + 1]
    /\ UNCHANGED <<cfg_vars, paths, thumbnails, ingest_vars, set_vars, rigid_slide_vars, nr_slide_vars,
                   call_vars>>

\* the channel names a slide can have: distinct names, at least one
ChannelLists ==
    {q \in UNION {[1..n -> 1..NChannels] : n \in 1..NChannels} :
        \A a, b \in 1..Len(q) : a # b => q[a] # q[b]}

\* colormap = None
NoneColormap == 0

\* the colormap argument: None, or its number of colours
Colormaps == {NoneColormap} \cup 1..NColors

\* Valis.warp_and_save_slides: the colours given to a slide with n_channels
\* channels; a colormap that is too short is reported and dropped
SlideCmap(colormap, n_channels) ==
    IF colormap = NoneColormap THEN [cmap |-> "None", warned |-> FALSE]
    ELSE IF colormap >= n_channels THEN [cmap |-> "dict", warned |-> FALSE]
    ELSE [cmap |-> "None", warned |-> TRUE]

\* Valis.warp_and_save_slides(dst_dir, level, colormap = colormap): the
\* reference slide's file is copied, every other slide is warped and saved
WarpAndSaveSlides ==
    /\ Registered
    /\ last_save.calls < MaxSaveCalls
    /\ \E opt \in SideValues, out \in SideValues :
         \E level \in Levels(1) :
            saved' = {IF s = reference_img_f
                      THEN [slide |-> s, kind |-> "copy", dst_f |-> <<s, "src_f">>,
                            level |-> 0, src_f |-> "None", read_from |-> "Slide.src_f",
                            tile_wh |-> 0]
                      ELSE SaveSlide(s, level, "None", opt, out) : s \in Slides}
    /\ \E colormap \in Colormaps, n_channels \in [Slides -> 1..NChannels] :
          last_save' = [fn |-> "warp_and_save_slides", calls |-> last_save.calls + 1,
                        raised |-> FALSE,
                        colormap |-> colormap, n_channels |-> n_channels,
                        slide_cmap |-> [s \in Slides |->
                                          IF s = reference_img_f
                                          THEN [cmap |-> "None", warned |-> FALSE]
                                          ELSE SlideCmap(colormap, n_channels[s])]]
    /\ UNCHANGED <<cfg_vars, paths, thumbnails, ingest_vars, set_vars, rigid_slide_vars, nr_slide_vars,
                   call_vars>>

\* the loop of warp_and_merge_slides from the i-th listed slide on: acc holds
\* the bands merged so far, as <<slide, band>>, and all_channel_names.  With
\* a channel_name_dict the names are the caller's; without one they are the
\* reader's names followed by the slide's name.
RECURSIVE MergeChannels(_, _, _, _, _)
MergeChannels(i, names, use_dict, drop_duplicates, acc) ==
    IF i > NumImgs \/ acc.raised THEN acc
    ELSE LET s == original_img_list[i]
             bands == Len(names[s])
             slide_channel_names ==
                 [k \in 1..bands |-> <<names[s][k], IF use_dict THEN 0 ELSE s>>]
             InAll(c) == \E j \in 1..Len(acc.all_channel_names) :
                            acc.all_channel_names[j] = c
             keep_idx == IF use_dict /\ drop_duplicates
                         THEN SelectSeq([k \in 1..bands |-> k],
                                        LAMBDA k : ~InAll(slide_channel_names[k]))
                         ELSE [k \in 1..bands |-> k]
         IN IF drop_duplicates /\ bands # Len(keep_idx)
            THEN IF Len(keep_idx) = 0
                 THEN [acc EXCEPT !.raised = TRUE]             \* keep_channels[0]
                 ELSE MergeChannels(i + 1, names, use_dict, drop_duplicates,
                        [acc EXCEPT
                           !.bands = @ \o [k \in 1..Len(keep_idx) |-> <<s, keep_idx[k]>>],
                           !.all_channel_names =
                               @ \o [k \in 1..Len(keep_idx) |->
                                       slide_channel_names[keep_idx[k]]]])
            ELSE MergeChannels(i + 1, names, use_dict, drop_duplicates,
                   [acc EXCEPT
                      !.bands = @ \o [k \in 1..bands |-> <<s, k>>],
                      !.all_channel_names = @ \o slide_channel_names])

\* the colours of the merged image: none without a colormap, one per channel
\* with a long enough colormap; with a shorter one the warning is printed and
\* cmap_dict is used without having been bound
MergedCmap(colormap, n_channels) ==
    IF colormap = NoneColormap THEN [cmap |-> "None", warned |-> FALSE, raised |-> FALSE]
    ELSE IF colormap >= n_channels THEN [cmap |-> "dict", warned |-> FALSE, raised |-> FALSE]
    ELSE [cmap |-> "unbound", warned |-> TRUE, raised |-> TRUE]

\* Valis.warp_and_merge_slides(dst_f, level, channel_name_dict, src_f_list,
\* colormap, drop_duplicates): each listed file names its slide, whose
\* warp_slide is called without the file; the tile side comes from the slide
\* the loop visited last
WarpAndMergeSlides ==
    /\ Registered
    /\ last_save.calls < MaxSaveCalls
    /\ \E names \in [Slides -> ChannelLists], use_dict \in BOOLEAN,
          drop_duplicates \in BOOLEAN, colormap \in Colormaps :
         LET merged == MergeChannels(1, names, use_dict, drop_duplicates,
                           [raised |-> FALSE, bands |-> <<>>, all_channel_names |-> <<>>])
             cmap == MergedCmap(colormap, Len(merged.all_channel_names))
             raised == merged.raised \/ cmap.raised
         IN /\ last_save' = [fn |-> "warp_and_merge_slides",
                             calls |-> last_save.calls + 1,
                             channel_names |-> names,
                             channel_name_dict |-> use_dict,
                             drop_duplicates |-> drop_duplicates,
                             colormap |-> colormap,
                             raised |-> raised,
                             warned |-> ~merged.raised /\ cmap.warned,
                             bands |-> IF raised THEN <<>> ELSE merged.bands,
                             all_channel_names |->
                                 IF raised THEN <<>> ELSE merged.all_channel_names]
            /\ IF raised
               THEN saved' = {}
               ELSE \E src_f_list \in {"None", "alt"}, opt \in SideValues,
                       out \in SideValues :
                      \E level \in Levels(NumImgs) :
                         LET last == original_img_list[NumImgs]
                         IN saved' = {[slide |-> original_img_list[i], kind |-> "merged",
                                       dst_f |-> <<0, ".ome.tiff">>, level |-> level,
                                       src_f |-> src_f_list,
                                       read_from |-> WarpSlideSrc("None"),
                                       tile_wh |-> TileWh(level, opt,
                                                          slide_dimensions[last], out)]
                                      : i \in 1..NumImgs}
    /\ UNCHANGED <<cfg_vars, paths, thumbnails, ingest_vars, set_vars, rigid_slide_vars, nr_slide_vars,
                   call_vars>>

Dirs == 1..NDirs

\* load_registrar(src_f), src_f being the artifact inside the results tree
\* read_dir: when the artifact's directory is not the recorded data_dir, the
\* destination directory, the result directories and the slides' result paths
\* are set again
LoadedPaths(p, read_dir) ==
    IF p.data_dir # read_dir
    THEN [p EXCEPT !.loaded_from = read_dir,
                   !.dst_dir = read_dir,
                   !.data_dir = read_dir,
                   !.processed_img_f = [s \in Slides |-> read_dir],
                   !.rigid_reg_img_f =
                       [s \in Slides |->
                          [dir |-> read_dir,
                           file |-> ThumbnailName(stack_idx[s], Digits(size), "f", s)]],
                   !.non_rigid_reg_img_f =
                       [s \in Slides |->
                          [dir |-> read_dir,
                           file |-> ThumbnailName(stack_idx[s], Digits(size), "f", s)]],
                   !.bk_dxdy_f = [s \in Slides |-> IF stored_dxdy[s] THEN read_dir
                                                  ELSE @[s]]]
    ELSE [p EXCEPT !.loaded_from = read_dir]

LoadRegistrar ==
    /\ Registered
    /\ reg_f = "written"
    /\ \E read_dir \in Dirs : paths' = LoadedPaths(paths, read_dir)
    /\ UNCHANGED <<cfg_vars, saved, thumbnails, last_save, ingest_vars, set_vars, rigid_slide_vars, nr_slide_vars,
                   call_vars>>

\* np.ceil(a * (b / c)) of positive integers
CeilMulDiv(a, b, c) == ((a * b) + c - 1) \div c

(* Valis.get_aligned_slide_shape(level) for an integer level: a level past   *)
(* the reference slide's pyramid is reported and replaced by level - 1;      *)
(* indexing slide_dimensions_wh outside the pyramid raises IndexError        *)
GetAlignedSlideShape(level) ==
    LET ref_slide == GetRefSlide
        n_levels == Len(slide_dimensions[ref_slide])
        warned == level >= n_levels
        used == IF warned THEN level - 1 ELSE level
    IN IF used >= n_levels
       THEN [warned |-> warned, raised |-> TRUE, used |-> used, shape |-> 0]
       ELSE [warned |-> warned, raised |-> FALSE, used |-> used,
             shape |-> CeilMulDiv(reg_img_shape_rc[ref_slide],
                                  slide_dimensions[ref_slide][used + 1],
                                  ProcLen(ref_slide))]

(* Slide.warp_slide(level, crop) up to the crop box: the aligned shape for a *)
(* level other than 0, then, cropping to the reference, the reference        *)
(* slide's dimensions at `level` itself                                      *)
WarpSlideShape(level, crop_method) ==
    LET got == IF level # 0 THEN GetAlignedSlideShape(level)
               ELSE [warned |-> FALSE, raised |-> FALSE, used |-> 0,
                     shape |-> aligned_slide_shape_rc]
    IN IF ~got.raised /\ crop_method = CROP_REF
          /\ level >= Len(slide_dimensions[GetRefSlide])
       THEN [got EXCEPT !.raised = TRUE]
       ELSE got

\* a call of get_aligned_slide_shape or of warp_slide on a registered set
GetAlignedSlideShapeCall ==
    /\ Registered
    /\ \E level \in 0..MaxLevel :
         \/ LET got == GetAlignedSlideShape(level)
            IN shape_call' = [fn |-> "get_aligned_slide_shape", level |-> level,
                              crop |-> "None", warned |-> got.warned,
                              raised |-> got.raised, used |-> got.used,
                              shape |-> got.shape]
         \/ \E crop_method \in CropKeys :
              LET got == WarpSlideShape(level, crop_method)
              IN shape_call' = [fn |-> "warp_slide", level |-> level,
                                crop |-> crop_method, warned |-> got.warned,
                                raised |-> got.raised, used |-> got.used,
                                shape |-> got.shape]
    /\ UNCHANGED <<cfg_vars, ingest_vars, set_vars, rigid_slide_vars, nr_slide_vars,
                   results_vars, pc, loop_i, stages, failed_stage, result, escaped,
                   reg_f, summary_csv, micro_calls, last_micro, prep_level>>

\* a registered set whose slides have a second pyramid level, then saved or
\* merged
InitResults ==
    /\ InitWith({"full"})
    /\ imgs_ordered
    /\ \A s \in Slides : tform_dict[s] = "none"
    /\ InitIngest({<<MaxDim, MaxDim>>}, {<<MaxDim, (MaxDim + 1) \div 2>>}, {FALSE})

NextResults ==
    \/ Next
    \/ WarpAndSaveSlide
    \/ WarpAndSaveSlides
    \/ WarpAndMergeSlides

SpecResults == InitResults /\ [][NextResults]_vars

\* a registered set asked for the aligned shape at levels in and past the
\* pyramid
NextShape == Next \/ GetAlignedSlideShapeCall

SpecShape == InitResults /\ [][NextShape]_vars

\* a registered set, refined at higher resolution and re-loaded from the
\* directory its results tree was moved to
NextLoad == NextMicro \/ LoadRegistrar

SpecLoad == InitMicro /\ [][NextLoad]_vars

(* ------------------------------ properties ---------------------------- *)
StageOrder == <<"convert", "process", "rigid", "non_rigid", "measure", "pickle", "csv">>

StagesStarted == {stages[i] : i \in 1..Len(stages)}

LastStage == stages[Len(stages)]

\* rigid_register has run its loop over every slide to the end
RigidCompleted ==
    \/ pc = "rigid_loop" /\ loop_i = NumImgs
    \/ StagesStarted \cap {"non_rigid", "measure"} # {}

(* C1: register never lets an exception out.  Whenever a stage raised, or   *)
(* rigid registration reported failure, the failed stage is the last stage  *)
(* that was started and register returns (None, None, None); the triple of  *)
(* results is returned only when no stage failed.                           *)
C1_RegisterNeverRaises ==
    /\ ~escaped
    /\ result # "raised"
    /\ failed_stage # "none" => stages # <<>> /\ LastStage = failed_stage
    /\ pc = "returned" /\ failed_stage # "none" => result = "None3"
    /\ result = "triple" => failed_stage = "none"

C1_Witness ==
    /\ pc = "returned" /\ result = "None3"
    /\ failed_stage = "non_rigid"
    /\ "measure" \notin StagesStarted

(* C2: the stages of one register run start in the fixed order ingest,      *)
(* preprocess, rigid, non-rigid (only when a solver class is configured),   *)
(* error measurement, write the set artifact, write the summary CSV; and    *)
(* the artifact is written only in a run in which no earlier stage failed.  *)
C2_NextStage ==
    IF stages = <<>> THEN "convert"
    ELSE IF LastStage = "convert" THEN "process"
    ELSE IF LastStage = "process" THEN "rigid"
    ELSE IF LastStage = "rigid"
         THEN (IF non_rigid_registrar_cls = "None" THEN "measure" ELSE "non_rigid")
    ELSE IF LastStage = "non_rigid" THEN "measure"
    ELSE IF LastStage = "measure" THEN "pickle"
    ELSE "csv"

C2_StageOrder ==
    /\ [](reg_f # "absent" =>
            /\ {"convert", "process", "rigid", "measure", "pickle"} \subseteq StagesStarted
            /\ failed_stage \in {"none", "pickle", "csv"})
    /\ [][/\ stages' # stages =>
                /\ stages # <<>> => LastStage # "csv"
                /\ stages' = Append(stages, C2_NextStage)
                /\ failed_stage = "none"
          /\ reg_f' # reg_f => failed_stage = "none" /\ LastStage = "measure"]_vars

C2_Witness ==
    /\ reg_f = "written" /\ summary_csv = "written"
    /\ stages = StageOrder
    /\ result = "triple"

(* C3: once rigid registration has completed, by the full pipeline or by    *)
(* the partial one, the slides' stack_idx values are exactly 0..N-1, each   *)
(* used once, and every position of a per-position list (the rows of the    *)
(* error summary, the image lists prepared for a non-rigid pass) holds      *)
(* exactly one slide.                                                       *)
C3_StackIdxPermutation ==
    RigidCompleted =>
        /\ {stack_idx[s] : s \in Slides} = 0..(NumImgs - 1)
        /\ \A a, b \in Slides : a # b => stack_idx[a] # stack_idx[b]
        /\ \A i \in 1..Len(summary_df) : Cardinality(summary_df[i]) = 1
        /\ \A i \in 1..Len(img_names_list) : Cardinality(img_names_list[i]) = 1

C3_Witness ==
    /\ RigidCompleted
    /\ do_rigid = "partial" /\ imgs_ordered
    /\ Len(summary_df) = NSlides
    /\ Len(img_names_list) = NSlides

(* C4: once rigid registration has completed every slide's registered shape *)
(* is the set's canonical shape, and no later operation (non-rigid          *)
(* registration, micro-registration, error measurement, writing results)    *)
(* changes that shape or the three crop masks and their bounding boxes.     *)
C4_CanonicalFrame ==
    /\ [](RigidCompleted =>
            /\ aligned_img_shape_rc # NoneShape
            /\ \A s \in Slides : reg_img_shape_rc[s] = aligned_img_shape_rc
            /\ \A k \in CropKeys : Len(mask_dict[k].mask) = aligned_img_shape_rc)
    /\ [][RigidCompleted =>
            UNCHANGED <<aligned_img_shape_rc, reg_img_shape_rc, mask_dict>>]_vars

C4_Witness ==
    /\ RigidCompleted
    /\ last_micro.status = "returned"
    /\ full_displacement_shape_rc # aligned_img_shape_rc
    /\ \E s \in Slides : ProcLen(s) # aligned_img_shape_rc
    /\ \A s \in Slides : reg_img_shape_rc[s] = aligned_img_shape_rc

(* C5: after rigid registration has completed, in whichever mode it was     *)
(* entered (full, partial with caller matrices, skipped), the linear part   *)
(* of the reference slide's matrix is the identity.                         *)
C5_ReferencePureTranslation ==
    RigidCompleted => M[GetRefSlide].lin = 1

\* fixed_slide links lead from slide s to the reference in at most n steps
RECURSIVE ReachesReference(_, _)
ReachesReference(s, n) ==
    IF s = GetRefSlide THEN TRUE
    ELSE IF n = 0 \/ s = NoneSlide THEN FALSE
    ELSE ReachesReference(fixed_slide[s], n - 1)

(* C6: once the rigid stage of a set is over and rigid_register has written *)
(* slides, the reference's fixed_slide is None, every other slide's         *)
(* fixed_slide is another slide of the set, also when its matrix came from  *)
(* the caller, and the links lead to the reference in fewer than N steps.   *)
C6_FixedSlideLinks ==
    (/\ pc \notin {"idle", "convert", "process", "rigid", "rigid_loop"}
     /\ \E s \in Slides : M[s] # NoneM)
    => /\ fixed_slide[GetRefSlide] = NoneSlide
       /\ \A s \in Slides \ {GetRefSlide} :
            /\ fixed_slide[s] \in Slides \ {s}
            /\ ReachesReference(s, NumImgs - 1)

\* a register_micro call made on a set whose slides hold displacements
MicroCallStep ==
    /\ micro_calls' = micro_calls + 1
    /\ \A s \in Slides : dxdy_np[s].bk # NoneField

\* the field solved in the call just made, placed in the full frame
C8_NewField(s, dir) ==
    PadDisplacement(
        SolvedDxdy(s, last_micro'.delta, non_rigid_bbox'[2])[dir],
        full_displacement_shape_rc', non_rigid_bbox')

(* C8: every register_micro call, in memory or tiled, returns, and after it *)
(* each slide's displacement read through bk_dxdy / fwd_dxdy is the one     *)
(* read before the call, rescaled to the call's full shape, plus the field  *)
(* solved in the call.                                                      *)
C8_MicroAdds ==
    [][MicroCallStep =>
        /\ last_micro'.status = "returned"
        /\ \A s \in Slides :
             /\ GetBkDxdy(s)' =
                  AddDxdy(RescaleCurrent(GetBkDxdy(s), full_displacement_shape_rc'),
                          C8_NewField(s, "bk"))
             /\ GetFwdDxdy(s)' =
                  AddDxdy(RescaleCurrent(GetFwdDxdy(s), full_displacement_shape_rc'),
                          C8_NewField(s, "fwd"))]_vars

C10_TiledPassSpills ==
    [][MicroCallStep =>
        IF last_micro'.est > TILER_THRESH_GB
        THEN /\ last_micro'.status = "returned"
             /\ non_rigid_bbox' # NoneBBox
             /\ full_displacement_shape_rc' = last_micro'.k * aligned_img_shape_rc
             /\ \A s \in Slides :
                  /\ stored_dxdy'[s]
                  /\ Len(dxdy_file'[s].bk) = non_rigid_bbox'[2]
                  /\ Len(dxdy_file'[s].fwd) = non_rigid_bbox'[2]
        ELSE \A s \in Slides : ~stored_dxdy'[s]]_vars

\* the chain neighbour of the slide at position i towards the reference at r
C11_Neighbour(order, i, r) == order[(IF i < r THEN i + 1 ELSE i - 1) + 1]

(* C11: in partial rigid mode rigid_register_partial returns a registrar in *)
(* which every slide present in the caller's mapping keeps the supplied     *)
(* (rescaled) matrix, and every other slide but the reference has the       *)
(* matrix estimated against its chain neighbour with the neighbour's        *)
(* keypoints warped by the neighbour's own matrix (the identity for the     *)
(* reference), whatever the pattern of supplied and missing slides.         *)
C11_PartialFillsMissing ==
    [][(pc = "rigid" /\ pc' # "rigid" /\ do_rigid = "partial") =>
        /\ rigid_registrar'.kind = "registrar"
        /\ LET rr == rigid_registrar'
               r == rr.reference_img_idx
           IN \A s \in Slides :
                IF tform_dict[s] # "none"
                THEN rr.M[s] = SuppliedM(s, tform_dict[s])
                ELSE s # rr.reference_img_f =>
                       LET fix == C11_Neighbour(rr.img_obj_list,
                                                PosOf(rr.img_obj_list, s), r)
                       IN rr.M[s] = EstimateM(IF fix = rr.reference_img_f THEN IdM
                                              ELSE rr.M[fix])]_vars

(* C15: registering a set of exactly one slide completes without error:     *)
(* error measurement, reached when every earlier stage has returned, does   *)
(* not raise on the single slide, and when register has returned its        *)
(* results the slide is the reference with an identity matrix (none was     *)
(* supplied by the caller) and a displacement that is absent or zero.       *)
C15_SingleSlideRegisters ==
    NumImgs = 1 =>
        /\ pc = "measure" => ~MeasureErrorRaises
        /\ (pc = "returned" /\ result = "triple" /\ do_rigid # "partial") =>
              /\ GetRefSlide = 1
              /\ M[1] = IdM
              /\ \A i \in 1..Len(dxdy_np[1].bk) : dxdy_np[1].bk[i] = 0

\* convert_imgs, respectively process_imgs, has just returned
ConvertReturns == stages' = Append(stages, "convert") /\ pc' = "process"

ProcessReturns == stages' = Append(stages, "process") /\ pc' = "rigid"

\* the largest level whose larger side is <= the budget, the smallest level
\* when none fits (0-based)
C12_LargestLevelWithin(dims, max_dim) ==
    LET fits == {i \in 1..Len(dims) : dims[i] <= max_dim} IN
    IF fits # {} THEN (CHOOSE i \in fits : \A j \in fits : i <= j) - 1
    ELSE Len(dims) - 1

(* C12: at ingest the level read for a slide is the largest level whose     *)
(* larger side is <= max_image_dim_px, at preprocessing the largest whose   *)
(* larger side is <= max_processed_image_dim_px; when no level fits it is   *)
(* the smallest level, and the image kept is never larger than the budget.  *)
C12_AdaptiveLevel ==
    [][/\ ConvertReturns =>
            \A s \in Slides :
                /\ level_read'[s].convert =
                      C12_LargestLevelWithin(slide_dimensions[s], max_image_dim_px)
                /\ image'[s] <= max_image_dim_px
       /\ ProcessReturns =>
            \A s \in Slides :
                /\ level_read'[s].process =
                      C12_LargestLevelWithin(slide_dimensions[s],
                                             max_processed_image_dim_px)
                /\ processed_img'[s] <= max_processed_image_dim_px]_vars

(* C13: max_processed_image_dim_px <= max_image_dim_px in every state: once *)
(* the set is constructed, whatever pair of sizes was requested, and after  *)
(* convert_imgs with its check of the image sizes.                          *)
C13_ProcessedWithinImage ==
    max_processed_image_dim_px <= max_image_dim_px

C13_Witness ==
    /\ pc = "process"
    /\ init_args[1] < init_args[2]
    /\ max_processed_image_dim_px < init_args[2]
    /\ max_image_dim_px = max_processed_image_dim_px

\* the larger side of the image read for slide s by the convert_imgs call
\* that has just returned, before the sizes were checked
C14_Ingested(s) ==
    ScaleToMax(slide_dimensions[s][level_read'[s].convert + 1], max_image_dim_px)

(* C14: when some ingested image's larger side is smaller than              *)
(* max_image_dim_px, then after convert_imgs neither budget exceeds the     *)
(* smallest image's larger side and no slide's image does.                  *)
C14_ClampToSmallest ==
    [][(ConvertReturns /\ \E s \in Slides : C14_Ingested(s) < max_image_dim_px) =>
          LET smallest == MinMaxWh([s \in Slides |-> C14_Ingested(s)]) IN
          /\ max_image_dim_px' <= smallest
          /\ max_processed_image_dim_px' <= smallest
          /\ \A s \in Slides : image'[s] <= smallest]_vars

\* no canonical pixel is covered by the warped masks of all the slides
C16_ZeroIntersection(rr) ==
    \A i \in 1..rr.registered_shape_rc[rr.reference_img_f] :
        \E s \in Slides :
            MaskAt(WarpImg(rigid_reg_mask[s], rr.M[s], rr.registered_shape_rc[s]), i) = 0

(* C16: when the rigidly warped masks of the slides have no pixel in        *)
(* common, rigid_register goes on to update the slides, and the overlap     *)
(* crop mask and bounding box it records are those of the reference         *)
(* slide's footprint, not empty.                                            *)
C16_ZeroOverlapFallsBack ==
    [][(/\ pc = "rigid"
        /\ rigid_registrar'.kind = "registrar"
        /\ C16_ZeroIntersection(rigid_registrar')) =>
          /\ pc' = "rigid_loop"
          /\ mask_dict'[CROP_OVERLAP] = GetRefImgMask(rigid_registrar')]_vars


(* C17: every slide written by warp_and_save_slide or warp_and_merge_slides *)
(* is saved with a tile side that is a multiple of 16, at every level, for  *)
(* every recorded optimal tile width and every size of the warped slide,    *)
(* the case where the tile side is clamped to the image included.           *)
C17_TileSideMultipleOf16 ==
    \A f \in saved : f.kind \in {"warped", "merged"} => f.tile_wh % 16 = 0

(* C18: warp_and_save_slides writes, for every slide of the set, the        *)
(* reference slide included, a warped OME-TIFF named <slide name>.ome.tiff. *)
C18_EverySlideWarpedAndSaved ==
    [][WarpAndSaveSlides =>
          \A s \in Slides :
             \E f \in saved' : /\ f.slide = s
                               /\ f.kind = "warped"
                               /\ f.dst_f = <<s, ".ome.tiff">>]_vars

(* C19: when warp_and_save_slide is given src_f, or warp_and_merge_slides   *)
(* is given src_f_list, the pixels that are warped and saved are read from  *)
(* that file and not from the slide's original file.                        *)
C19_PixelsReadFromGivenFile ==
    \A f \in saved : f.src_f # "None" => f.read_from = f.src_f

\* every path the set holds points into the results tree dir
C20_AllPathsUnder(p, dir) ==
    /\ p.dst_dir = dir
    /\ p.data_dir = dir
    /\ \A s \in Slides : p.processed_img_f[s] = dir
    /\ \A s \in Slides : stored_dxdy[s] => p.bk_dxdy_f[s] = dir
    /\ p.reg_f = dir

(* C20: after load_registrar of an artifact whose directory differs from    *)
(* the recorded data_dir, every path the set holds lies under the tree the  *)
(* artifact was read from: dst_dir and the result directories, each slide's *)
(* result image paths and spilled displacement file paths, and reg_f; when  *)
(* the directory did not change, no path is modified.                       *)
C20_LoadRebasesEveryPath ==
    [][LoadRegistrar =>
          LET read_dir == paths'.loaded_from IN
          IF paths.data_dir # read_dir
          THEN C20_AllPathsUnder(paths', read_dir)
          ELSE paths' = [paths EXCEPT !.loaded_from = read_dir]]_vars


\* <stack_idx zero-padded to the digit count of N>_<name>.png
C21_Name(s) == ThumbnailName(stack_idx[s], Digits(NumImgs), "", s)

(* C21: for every slide of a registered set, right after registration and   *)
(* after load_registrar has set the paths again, rigid_reg_img_f is         *)
(* <stage directory>/<zero-padded stack_idx>_<name>.png and names the rigid *)
(* thumbnail that was written, and, when non-rigid registration ran,        *)
(* non_rigid_reg_img_f does the same for the non-rigid thumbnail.           *)
C21_ThumbnailPaths ==
    Registered =>
        \A s \in Slides :
            /\ paths.rigid_reg_img_f[s] = [dir |-> paths.data_dir, file |-> C21_Name(s)]
            /\ thumbnails[s].rigid = paths.rigid_reg_img_f[s].file
            /\ non_rigid_registrar_cls # "None" =>
                  /\ paths.non_rigid_reg_img_f[s] =
                        [dir |-> paths.data_dir, file |-> C21_Name(s)]
                  /\ thumbnails[s].non_rigid = paths.non_rigid_reg_img_f[s].file


(* C22: in the summary of measure_error, the row of every slide other than  *)
(* the reference holds, in original_rTRE, rigid_rTRE and non_rigid_rTRE,    *)
(* the median relative error of the untransformed, the rigidly warped and   *)
(* the non-rigidly warped feature pairs to its fixed neighbour, over the    *)
(* diagonal of the reference processed image; the reference's row holds no  *)
(* error value.                                                             *)
C22_SummaryRTRE ==
    summary_rTRE # <<>> =>
        \A s \in Slides :
            LET row == summary_rTRE[stack_idx[s] + 1] IN
            IF s = GetRefSlide
            THEN /\ row.original_rTRE = NoneRTRE
                 /\ row.rigid_rTRE = NoneRTRE
                 /\ row.non_rigid_rTRE = NoneRTRE
            ELSE /\ row.original_rTRE = MedianRTRE("original", s)
                 /\ row.rigid_rTRE = MedianRTRE("rigid", s)
                 /\ dxdy_np[s].bk # NoneField =>
                       row.non_rigid_rTRE = MedianRTRE("non_rigid", s)


\* the slides whose channel names include c
C23_SlidesWith(c) ==
    {s \in Slides : \E k \in 1..Len(last_save.channel_names[s]) :
                       last_save.channel_names[s][k] = c}

(* C23: for every list of slides and channel names, warp_and_merge_slides   *)
(* returns a channel-name list with exactly one name per band of the merged *)
(* image, in band order; with drop_duplicates and a channel_name_dict no    *)
(* name occurs twice in it and a channel that several slides have is kept   *)
(* only from the first of them.                                             *)
C23_MergedChannelNames ==
    (last_save.fn = "warp_and_merge_slides" /\ last_save.colormap = NoneColormap) =>
        LET names == last_save.all_channel_names
            bands == last_save.bands
        IN /\ ~last_save.raised
           /\ Len(names) = Len(bands)
           /\ \A j \in 1..Len(names) :
                 names[j][1] = last_save.channel_names[bands[j][1]][bands[j][2]]
           /\ (last_save.drop_duplicates /\ last_save.channel_name_dict) =>
                 /\ \A a, b \in 1..Len(names) : a # b => names[a] # names[b]
                 /\ \A c \in 1..NChannels :
                       C23_SlidesWith(c) # {} =>
                          \E j \in 1..Len(names) :
                             /\ names[j][1] = c
                             /\ \A o \in C23_SlidesWith(c) : bands[j][1] <= o

\* the colormap has fewer colours than there are channels to colour
C30_ShortFor(n_channels) ==
    last_save.colormap # NoneColormap /\ last_save.colormap < n_channels

(* C30: when the colormap has fewer colours than there are channels,        *)
(* warp_and_save_slides and warp_and_merge_slides warn and still save or    *)
(* return the result, without channel colours, instead of failing.          *)
C30_ShortColormapWarns ==
    /\ last_save.fn = "warp_and_save_slides" =>
          \A s \in Slides :
             (s # reference_img_f /\ C30_ShortFor(last_save.n_channels[s])) =>
                /\ ~last_save.raised
                /\ last_save.slide_cmap[s] = [cmap |-> "None", warned |-> TRUE]
                /\ \E f \in saved : f.slide = s /\ f.kind = "warped"
    /\ last_save.fn = "warp_and_merge_slides" =>
          LET merged == MergeChannels(1, last_save.channel_names,
                                      last_save.channel_name_dict,
                                      last_save.drop_duplicates,
                                      [raised |-> FALSE, bands |-> <<>>,
                                       all_channel_names |-> <<>>])
          IN (~merged.raised /\ C30_ShortFor(Len(merged.all_channel_names))) =>
                /\ ~last_save.raised
                /\ last_save.warned
                /\ saved # {}


(* C24: when register is called without reader_cls, every file that          *)
(* convert_imgs has opened was opened with the reader class that             *)
(* slide_io.get_slide_reader selects for that file, whatever the other files *)
(* of the set and their order are.                                           *)
C24_ReaderPerFile ==
    reader_cls = NoneReader =>
        \A s \in Slides : reader[s] # NoneReader => reader[s] = GetSlideReader(s)

(* C29: after convert_imgs, size is the number of slide records in           *)
(* slide_dict and the number of input files, also for files whose names      *)
(* repeat.                                                                   *)
C29_SizeCountsSlides ==
    [][ConvertReturns => (size' = Len(slide_dict') /\ size' = NumImgs)]_vars

(* C25: the denoised images serve rigid registration only.  denoise_images   *)
(* has run once when the rigid stage has started and not before; the         *)
(* registrar detects features on the denoised files; no slide's in-memory    *)
(* processed_img is ever denoised; and once rigid_register has returned a    *)
(* registrar, every image object's image and registered image come from the  *)
(* un-denoised processed image.                                              *)
C25_RigidReturned == StagesStarted \cap {"non_rigid", "measure"} # {}

C25_DenoisedOnlyForRigid ==
    /\ pixels.denoise_calls = IF "rigid" \in StagesStarted THEN 1 ELSE 0
    /\ \A s \in Slides : pixels.mem[s] # "denoised"
    /\ pc = "rigid_loop" => \A s \in Slides : pixels.img_obj[s].image = "denoised"
    /\ C25_RigidReturned =>
          \A s \in Slides : /\ pixels.img_obj[s].image = "processed"
                            /\ pixels.img_obj[s].registered_img = "processed"

C25_Witness ==
    /\ C25_RigidReturned
    /\ pixels.denoise_calls = 1
    /\ \A s \in Slides : /\ pixels.file[s] = "processed"
                         /\ pixels.img_obj[s].registered_img = pixels.mem[s]

(* C26: a register_micro call that does not complete leaves every slide's    *)
(* displacement fields, stored_dxdy flag and displacement files, and the     *)
(* pickled set, as they were before the call.                                *)
C26_MicroAllOrNothing ==
    [][(micro_calls' = micro_calls + 1 /\ last_micro'.status = "raised") =>
          UNCHANGED <<dxdy_np, stored_dxdy, dxdy_file, reg_f>>]_vars

(* C27: the level the preparation reads for a slide is defined and is a      *)
(* level of the slide's pyramid, for every choice of max_img_dim and mask:   *)
(* the smallest level whose larger side is at least that of the required     *)
(* source image, and level 0 when no level is that large.                    *)
C27_Expected(dims, src_side) ==
    LET large == {i \in 1..Len(dims) : dims[i] >= src_side} IN
    IF large = {} THEN 0
    ELSE (CHOOSE i \in large : \A j \in large : i >= j) - 1

C27_PrepLevelValid ==
    prep_level # NonePrepLevel =>
        /\ prep_level.bound
        /\ prep_level.level \in 0..(Len(slide_dimensions[prep_level.slide]) - 1)
        /\ prep_level.level =
              C27_Expected(slide_dimensions[prep_level.slide], prep_level.src_side)

(* C28: for a level at or past the number of pyramid levels of the reference *)
(* slide, get_aligned_slide_shape warns and returns the aligned shape of the *)
(* smallest level without indexing outside the pyramid, and warp_slide given *)
(* such a level does not fail.                                               *)
C28_LevelPastPyramid ==
    LET n_levels == Len(slide_dimensions[GetRefSlide]) IN
    (shape_call # NoneShapeCall /\ shape_call.level >= n_levels) =>
        /\ shape_call.warned
        /\ ~shape_call.raised
        /\ shape_call.used = n_levels - 1
        /\ shape_call.shape = GetAlignedSlideShape(n_levels - 1).shape
====
